---- MODULE Spec2Model ----
(***************************************************************************)
(* Failure reporting and label propagation of the chumsky parser           *)
(* combinator library: the Simple error type (src/src/error.rs) and the    *)
(* Labelled combinator (src/src/label.rs).                                  *)
(*                                                                         *)
(* Spec       : runs of Labelled::go, nested, around an arbitrary inner    *)
(*              parser built from the engine's primitives.                 *)
(* SpecSimple : the pure operations of Simple (construct, relabel, merge,  *)
(*              Display) applied to inputs drawn from bounded sets.        *)
(***************************************************************************)
EXTENDS Naturals, Sequences, FiniteSets, TLC

VARIABLES cursor, alt, secondary, stack, last, nErr, nGo,
          lhs, rhs, op, text

vars == <<cursor, alt, secondary, stack, last, nErr, nGo, lhs, rhs, op, text>>

---------------------------------------------------------------------------
(* Bounds of the model *)

\* positions of the input: 0 .. MaxPos
MaxPos == 2
\* number of Labelled::go invocations plus errors the parsers create in one run
MaxOps == 3
\* length of an expected sequence built by repeated merges in SpecSimple
MaxExpected == 4

---------------------------------------------------------------------------
(* Option<T> and PResult *)

None == [some |-> FALSE]
Some(v) == [some |-> TRUE, val |-> v]

Ok(v) == [ok |-> TRUE, val |-> v]
Err == [ok |-> FALSE]

InputTokens == <<"(", "1", "+", "2">>
ExpectedTokens == <<")", "0", "9", "*", "-", "/">>
\* the label of the n-th Labelled parser of the grammar
LabelNames == <<"digit", "parenthesized", "expr", "stmt", "item", "block">>
Outputs == {"o1", "o2"}
Results == {Ok(v) : v \in Outputs} \cup {Err}

---------------------------------------------------------------------------
(* error.rs: SimplePattern and Simple *)

Labelled(s) == [tag |-> "Labelled", val |-> s]
Token(x) == [tag |-> "Token", val |-> x]

\* impl From<&'static str> for SimplePattern
from(s) == Labelled(s)

\* Range { start, end }
span(s, e) == [start |-> s, end |-> e]

expected_token_found(sp, expected, found) ==
    [span |-> sp,
     expected |-> [i \in 1..Len(expected) |-> Token(expected[i])],
     found |-> found]

into_labelled(self, label) == [self EXCEPT !.expected = <<from(label)>>]

expected_label_found(sp, label, found) ==
    into_labelled(expected_token_found(sp, <<>>, found), label)

\* faulty variant: the other error's patterns come first
merge_other_first(self, other) == [self EXCEPT !.expected = other.expected \o self.expected]

merge(self, other) == [self EXCEPT !.expected = self.expected \o other.expected]

\* impl Display for SimplePattern
fmt_pattern(self) ==
    IF self.tag = "Labelled" THEN self.val ELSE "'" \o self.val \o "'"

\* the Display of a span
fmt_span(sp) == ToString(sp.start) \o ".." \o ToString(sp.end)

\* [String]::join
RECURSIVE join(_, _)
join(strs, sep) ==
    IF Len(strs) = 0 THEN ""
    ELSE IF Len(strs) = 1 THEN strs[1]
    ELSE strs[1] \o sep \o join(Tail(strs), sep)

\* faulty variant: a single expected pattern is rendered as a list
fmt_simple_one_of(self) ==
    LET head == IF self.found.some
                THEN ("found '" \o self.found.val \o "' ") \o ("at " \o fmt_span(self.span) \o " ")
                ELSE "the input ended "
        rest == IF Len(self.expected) = 0
                THEN "but end of input was expected"
                ELSE "but one of "
                     \o join([i \in 1..Len(self.expected) |-> fmt_pattern(self.expected[i])], ", ")
                     \o " was expected"
    IN  head \o rest

\* impl Display for Simple
fmt_simple(self) ==
    LET head == IF self.found.some
                THEN ("found '" \o self.found.val \o "' ") \o ("at " \o fmt_span(self.span) \o " ")
                ELSE "the input ended "
        rest == IF Len(self.expected) = 0
                THEN "but end of input was expected"
                ELSE IF Len(self.expected) = 1
                THEN "but " \o fmt_pattern(self.expected[1]) \o " was expected"
                ELSE "but one of "
                     \o join([i \in 1..Len(self.expected) |-> fmt_pattern(self.expected[i])], ", ")
                     \o " was expected"
    IN  head \o rest

---------------------------------------------------------------------------
(* label.rs: LabelError, and the engine's accumulator *)

\* The error type of the engine: a Simple that also keeps the context stack
\* in_context pushes to, and the log of the LabelError calls made on it.
new_error(sp, expected, found) ==
    expected_token_found(sp, expected, found) @@ [context |-> <<>>, calls |-> <<>>]

label_with(self, label) ==
    [into_labelled(self, label) EXCEPT
        !.calls = Append(@, [fn |-> "label_with", label |-> label])]

in_context(self, label, sp) ==
    [self EXCEPT
        !.context = Append(@, [label |-> label, span |-> sp]),
        !.calls = Append(@, [fn |-> "in_context", label |-> label, span |-> sp])]

\* Located::at(pos, err)
at(pos, err) == [pos |-> pos, err |-> err]

\* InputRef::add_alt_err: the later failure wins, equal positions merge
add_alt_err(slot, pos, err) ==
    IF ~slot.some THEN Some(at(pos, err))
    ELSE IF slot.val.pos = pos THEN Some(at(slot.val.pos, merge(slot.val.err, err)))
    ELSE IF slot.val.pos > pos THEN slot
    ELSE Some(at(pos, err))

\* label.rs 51, 56: Option::take leaves the slot empty
take(slot) == None

\* faulty variant: the range is built from the failure position to the entry cursor
context_span_swapped(before, pos) == span(pos, before)

\* label.rs 66, 75: the range from the entry cursor to a failure position
context_span(before, pos) == span(before, pos)

\* faulty variant: the context branch is tried before the position test
rewrite_alt_context_first(new_alt, before, label, is_context) ==
    IF is_context /\ new_alt.pos >= before
    THEN at(new_alt.pos, in_context(new_alt.err, label, context_span(before, new_alt.pos)))
    ELSE IF new_alt.pos = before
    THEN at(new_alt.pos, label_with(new_alt.err, label))
    ELSE new_alt

\* faulty variant: a failure after the entry position is relabelled too
rewrite_alt_always_label(new_alt, before, label, is_context) ==
    IF new_alt.pos >= before
    THEN at(new_alt.pos, label_with(new_alt.err, label))
    ELSE new_alt

\* faulty variant: a failure an inner Labelled has already rewritten is left alone
rewrite_alt_keep_inner(new_alt, before, label, is_context) ==
    IF Len(new_alt.err.calls) > 0
    THEN new_alt
    ELSE IF new_alt.pos = before
    THEN at(new_alt.pos, label_with(new_alt.err, label))
    ELSE IF is_context /\ new_alt.pos > before
    THEN at(new_alt.pos, in_context(new_alt.err, label, context_span(before, new_alt.pos)))
    ELSE new_alt

\* label.rs 59-68: the rewrite of the alternative failure the inner run left
rewrite_alt(new_alt, before, label, is_context) ==
    IF new_alt.pos = before
    THEN at(new_alt.pos, label_with(new_alt.err, label))
    ELSE IF is_context /\ new_alt.pos > before
    THEN at(new_alt.pos, in_context(new_alt.err, label, context_span(before, new_alt.pos)))
    ELSE new_alt

\* faulty variant: old_alt is not put back before the re-insertion
exit_alt_no_restore(slot, old_alt, before, label, is_context) ==
    IF slot.some
    THEN LET r == rewrite_alt(slot.val, before, label, is_context)
         IN  add_alt_err(take(slot), r.pos, r.err)
    ELSE take(slot)

\* label.rs 56-70: take the inner run's alt, restore old_alt, re-insert
exit_alt(slot, old_alt, before, label, is_context) ==
    IF slot.some
    THEN LET r == rewrite_alt(slot.val, before, label, is_context)
         IN  add_alt_err(old_alt, r.pos, r.err)
    ELSE old_alt

\* faulty variant: the slice starts one error too early
exit_secondary_off_by_one(errs, err_count, before, label, is_context) ==
    IF is_context
    THEN [i \in 1..Len(errs) |->
            IF i >= err_count
            THEN at(errs[i].pos,
                    in_context(errs[i].err, label, context_span(before, errs[i].pos)))
            ELSE errs[i]]
    ELSE errs

\* faulty variant: the rewritten errors are moved to the entry position
exit_secondary_relocate(errs, err_count, before, label, is_context) ==
    IF is_context
    THEN [i \in 1..Len(errs) |->
            IF i > err_count
            THEN at(before,
                    in_context(errs[i].err, label, context_span(before, errs[i].pos)))
            ELSE errs[i]]
    ELSE errs

\* label.rs 72-78: context for the secondary errors recorded since entry
exit_secondary(errs, err_count, before, label, is_context) ==
    IF is_context
    THEN [i \in 1..Len(errs) |->
            IF i > err_count
            THEN at(errs[i].pos,
                    in_context(errs[i].err, label, context_span(before, errs[i].pos)))
            ELSE errs[i]]
    ELSE errs

\* faulty variant: go reports a failure whatever the inner parser returned
go_result_fail(res) == Err

\* label.rs 53, 80: go returns what the inner parser returned
go_result(res) == res

---------------------------------------------------------------------------
(* Spec: runs of Labelled::go *)

NoLast == [valid |-> FALSE]

Top == stack[Len(stack)]
Depth == Len(stack)

\* the inner parser of the running invocation is not itself a Labelled
Running == IF Depth = 0 THEN TRUE ELSE Top.pc = "run"

\* the lowest position the running parser may rewind to
Floor == IF Depth = 0 THEN 0 ELSE Top.before

\* the token at position p of the input, None at its end
Found(p) == IF p < MaxPos THEN Some(InputTokens[p + 1]) ELSE None

\* the failure of the n-th primitive parser at position p: each expects a token of its own
Failure(p, n) ==
    new_error(span(p, IF p < MaxPos THEN p + 1 ELSE p), <<ExpectedTokens[n]>>, Found(p))

ParserInit ==
    /\ cursor = 0
    /\ alt = None
    /\ secondary = <<>>
    /\ stack = <<>>
    /\ last = NoLast
    /\ nErr = 0
    /\ nGo = 0

NoOp == [fn |-> "none"]

SimpleIdle ==
    /\ lhs = None
    /\ rhs = None
    /\ op = NoOp
    /\ text = None

Init == ParserInit /\ SimpleIdle

\* the inner parser consumes one token
Advance ==
    /\ Running
    /\ cursor < MaxPos
    /\ cursor' = cursor + 1
    /\ last' = NoLast
    /\ UNCHANGED <<alt, secondary, stack, nErr, nGo, lhs, rhs, op, text>>

\* the inner parser backtracks to a position it saved during its run
Rewind ==
    /\ Running
    /\ Floor < cursor
    /\ cursor' = Floor
    /\ last' = NoLast
    /\ UNCHANGED <<alt, secondary, stack, nErr, nGo, lhs, rhs, op, text>>

\* the inner parser fails to match at the cursor
AltErr ==
    /\ Running
    /\ nErr + nGo < MaxOps
    /\ alt' = add_alt_err(alt, cursor, Failure(cursor, nErr + 1))
    /\ nErr' = nErr + 1
    /\ last' = NoLast
    /\ UNCHANGED <<cursor, secondary, stack, nGo, lhs, rhs, op, text>>

\* the inner parser records a secondary error at the cursor
Emit ==
    /\ Running
    /\ nErr + nGo < MaxOps
    /\ secondary' = Append(secondary, at(cursor, Failure(cursor, nErr + 1)))
    /\ nErr' = nErr + 1
    /\ last' = NoLast
    /\ UNCHANGED <<cursor, alt, stack, nGo, lhs, rhs, op, text>>

\* label.rs 51-53: Labelled::go up to the call of the inner parser
Enter ==
    /\ IF Depth = 0 THEN TRUE ELSE Top.pc \in {"run", "call"}
    /\ nErr + nGo < MaxOps
    /\ \E label \in {LabelNames[nGo + 1]}, is_context \in BOOLEAN, pc \in {"run", "call"} :
         stack' = Append(stack,
                    [label |-> label, is_context |-> is_context,
                     old_alt |-> alt, before |-> cursor,
                     err_count |-> Len(secondary),
                     pc |-> pc, res |-> Err, sec0 |-> secondary])
    /\ alt' = take(alt)
    /\ nGo' = nGo + 1
    /\ last' = NoLast
    /\ UNCHANGED <<cursor, secondary, nErr, lhs, rhs, op, text>>

\* label.rs 56-80: the inner parser has returned res.  last keeps what the
\* invocation saw and did: its locals, the accumulator as the inner parser left
\* it (new_alt, sec1), the failure passed to add_alt_err (reinserted), and, when
\* the inner parser was itself a Labelled, that invocation's label and entry.
Leave(res) ==
    LET f == Top
        parent == Len(stack) - 1
        popped == SubSeq(stack, 1, parent)
        ret == go_result(res)
    IN  /\ alt' = exit_alt(alt, f.old_alt, f.before, f.label, f.is_context)
        /\ secondary' = exit_secondary(secondary, f.err_count, f.before, f.label, f.is_context)
        /\ stack' = IF parent > 0 /\ stack[parent].pc = "call"
                    THEN [popped EXCEPT ![parent].pc = "ret", ![parent].res = ret]
                    ELSE popped
        /\ last' = [valid |-> TRUE, label |-> f.label, is_context |-> f.is_context,
                    before |-> f.before, err_count |-> f.err_count,
                    old_alt |-> f.old_alt, sec0 |-> f.sec0,
                    direct |-> f.pc = "ret",
                    inner |-> IF f.pc = "ret"
                              THEN [label |-> last.label, is_context |-> last.is_context,
                                    before |-> last.before]
                              ELSE None,
                    new_alt |-> alt, sec1 |-> secondary,
                    reinserted |-> IF alt.some
                                   THEN Some(rewrite_alt(alt.val, f.before, f.label, f.is_context))
                                   ELSE None,
                    inner_res |-> res, res |-> ret]
        /\ UNCHANGED <<cursor, nErr, nGo, lhs, rhs, op, text>>

\* the inner parser, not a Labelled, returns
Return ==
    /\ Depth > 0
    /\ Top.pc = "run"
    /\ \E res \in Results : Leave(res)

\* the inner parser, a Labelled, has returned
ReturnWrapped ==
    /\ Depth > 0
    /\ Top.pc = "ret"
    /\ Leave(Top.res)

Next ==
    \/ Advance
    \/ Rewind
    \/ AltErr
    \/ Emit
    \/ Enter
    \/ Return
    \/ ReturnWrapped

Spec == Init /\ [][Next]_vars

---------------------------------------------------------------------------
(* SpecSimple: the operations of Simple on inputs drawn from bounded sets *)

Tokens == {"x", "y"}
TokenVecs == {<<>>, <<"x">>, <<"y">>, <<"y", "x">>}
Spans == {span(0, 1), span(1, 2)}
Founds == {None} \cup {Some(t) : t \in Tokens}

Simples ==
    {expected_token_found(sp, ex, f) : sp \in Spans, ex \in TokenVecs, f \in Founds}
    \cup {expected_label_found(sp, "digit", f) : sp \in Spans, f \in Founds}

InitSimple ==
    /\ ParserInit
    /\ lhs \in Simples
    /\ rhs \in Simples
    /\ op = NoOp
    /\ text = None

\* lhs = lhs.merge(rhs)
Merge ==
    /\ Len(lhs.expected) + Len(rhs.expected) <= MaxExpected
    /\ lhs' = merge(lhs, rhs)
    /\ op' = [fn |-> "merge", self |-> lhs, other |-> rhs]
    /\ text' = None
    /\ UNCHANGED <<rhs, cursor, alt, secondary, stack, last, nErr, nGo>>

\* lhs = lhs.into_labelled(label)
IntoLabelled ==
    /\ \E label \in {"digit", "expr"} :
         /\ lhs' = into_labelled(lhs, label)
         /\ op' = [fn |-> "into_labelled", self |-> lhs, label |-> label]
    /\ text' = None
    /\ UNCHANGED <<rhs, cursor, alt, secondary, stack, last, nErr, nGo>>

\* text = lhs.to_string()
Display ==
    /\ text' = Some(fmt_simple(lhs))
    /\ op' = [fn |-> "fmt", self |-> lhs]
    /\ UNCHANGED <<lhs, rhs, cursor, alt, secondary, stack, last, nErr, nGo>>

NextSimple ==
    \/ Merge
    \/ IntoLabelled
    \/ Display

SpecSimple == InitSimple /\ [][NextSimple]_vars

---------------------------------------------------------------------------
(* Properties of Labelled::go, stated on the invocation that has just returned *)

\* the failure the inner run left, and the failure passed to add_alt_err
Left == last.new_alt.val
Put == last.reinserted.val

LabelCall(l) == [fn |-> "label_with", label |-> l]
ContextCall(l, lo, hi) ==
    [fn |-> "in_context", label |-> l, span |-> [start |-> lo, end |-> hi]]
ContextEntry(l, lo, hi) == [label |-> l, span |-> [start |-> lo, end |-> hi]]

\* the last two elements of a sequence of at least two
LastTwo(q) == <<q[Len(q) - 1], q[Len(q)]>>

\* C1: a failure left at the entry position gets label_with(label) exactly once
\* and no in_context, so the failure re-inserted expects exactly [label].
DirectRelabel ==
    (last.valid /\ last.new_alt.some /\ Left.pos = last.before) =>
        /\ last.reinserted.some
        /\ Put.pos = Left.pos
        /\ Put.err.expected = <<Labelled(last.label)>>
        /\ Put.err.calls = Append(Left.err.calls, LabelCall(last.label))
        /\ Put.err.context = Left.err.context

DirectRelabelWitness ==
    /\ last.valid
    /\ last.is_context
    /\ last.new_alt.some
    /\ Left.pos = last.before
    /\ Left.err.expected = <<Token(")")>>
    /\ Put.err.expected = <<Labelled("digit")>>
    /\ alt = last.reinserted

\* C2: a failure left strictly after the entry position keeps its expected
\* patterns; it gets in_context(label, entry..failure) exactly when is_context
\* is set, and is re-inserted unmodified otherwise.
ContextWrap ==
    (last.valid /\ last.new_alt.some /\ Left.pos > last.before) =>
        /\ last.reinserted.some
        /\ Put.pos = Left.pos
        /\ Put.err.expected = Left.err.expected
        /\ Put.err.span = Left.err.span
        /\ Put.err.found = Left.err.found
        /\ IF last.is_context
           THEN /\ Put.err.calls =
                     Append(Left.err.calls, ContextCall(last.label, last.before, Left.pos))
                /\ Put.err.context =
                     Append(Left.err.context, ContextEntry(last.label, last.before, Left.pos))
           ELSE last.reinserted = last.new_alt

ContextWrapWitness ==
    /\ last.valid
    /\ last.is_context
    /\ last.new_alt.some
    /\ last.before = 0
    /\ Left.pos = 2
    /\ Put.err.expected = <<Token(")")>>
    /\ Put.err.context = <<ContextEntry("digit", 0, 2)>>

\* C3: the secondary errors in the list at entry are unchanged on return; with
\* is_context each error recorded during the inner run has got exactly one
\* in_context(label, entry..its position); without it none is modified.
SecondaryScoping ==
    last.valid =>
        /\ Len(secondary) = Len(last.sec1)
        /\ Len(last.sec0) = last.err_count
        /\ \A i \in 1..Len(secondary) :
             IF i <= last.err_count
             THEN secondary[i] = last.sec0[i]
             ELSE IF last.is_context
             THEN /\ secondary[i].err.calls =
                       Append(last.sec1[i].err.calls,
                              ContextCall(last.label, last.before, last.sec1[i].pos))
                  /\ secondary[i].err.context =
                       Append(last.sec1[i].err.context,
                              ContextEntry(last.label, last.before, last.sec1[i].pos))
                  /\ secondary[i].err.expected = last.sec1[i].err.expected
             ELSE secondary[i] = last.sec1[i]

SecondaryScopingWitness ==
    /\ last.valid
    /\ last.is_context
    /\ last.err_count >= 1
    /\ Len(secondary) > last.err_count
    /\ secondary[1].err.context = <<>>
    /\ Len(secondary[Len(secondary)].err.context) = 1

\* C4: go returns exactly the result of the inner parser.
ResultTransparent ==
    /\ last.valid => last.res = last.inner_res
    /\ (last.valid /\ Len(stack) > 0 /\ stack[Len(stack)].pc = "ret") =>
           stack[Len(stack)].res = last.inner_res

ResultTransparentWitness ==
    /\ last.valid
    /\ last.inner_res = Ok("o2")
    /\ last.res = Ok("o2")
    /\ last.new_alt.some
    /\ last.reinserted # last.new_alt

\* C5: the alt slot is empty when the inner parser starts and old_alt is kept
\* aside untouched; on return the slot is old_alt if the inner run left no
\* failure, and add_alt_err of the rewritten failure into old_alt otherwise.
AltSlotSaveRestore ==
    [][ /\ (Len(stack') > Len(stack)) =>
              /\ ~alt'.some
              /\ stack'[Len(stack')].old_alt = alt
        /\ \A i \in 1..Len(stack) :
              (i <= Len(stack')) => stack'[i].old_alt = stack[i].old_alt
        /\ (Len(stack') < Len(stack)) =>
              IF alt.some
              THEN alt' = add_alt_err(stack[Len(stack)].old_alt,
                                      last'.reinserted.val.pos, last'.reinserted.val.err)
              ELSE alt' = stack[Len(stack)].old_alt
      ]_vars

AltSlotSaveRestoreWitness ==
    /\ last.valid
    /\ last.old_alt.some
    /\ last.new_alt.some
    /\ last.old_alt.val.pos > Left.pos
    /\ alt = last.old_alt

\* C8: every span passed to in_context by the invocation starts at the entry
\* position and ends at the failure position, which is not before the entry.
NewCalls(old, new) == {new.calls[k] : k \in (Len(old.calls) + 1)..Len(new.calls)}

NestedInnermostFirst ==
    (last.valid /\ last.direct) =>
        /\ last.inner.before = last.before
        /\ (last.new_alt.some /\ Left.pos = last.before) =>
              /\ Put.err.expected = <<Labelled(last.label)>>
              /\ Len(Put.err.calls) >= 2
              /\ LastTwo(Put.err.calls) =
                    <<LabelCall(last.inner.label), LabelCall(last.label)>>
        /\ (last.new_alt.some /\ Left.pos > last.before
              /\ last.is_context /\ last.inner.is_context) =>
              /\ Len(Put.err.calls) >= 2
              /\ LastTwo(Put.err.calls) =
                    <<ContextCall(last.inner.label, last.inner.before, Left.pos),
                      ContextCall(last.label, last.before, Left.pos)>>
              /\ LastTwo(Put.err.context) =
                    <<ContextEntry(last.inner.label, last.inner.before, Left.pos),
                      ContextEntry(last.label, last.before, Left.pos)>>
        /\ alt = IF last.new_alt.some
                 THEN add_alt_err(last.old_alt, Put.pos, Put.err)
                 ELSE last.old_alt

NestedInnermostFirstWitness ==
    /\ last.valid
    /\ last.direct
    /\ last.label = "digit"
    /\ last.inner.label = "parenthesized"
    /\ last.new_alt.some
    /\ Left.pos = last.before
    /\ Left.err.expected = <<Labelled("parenthesized")>>
    /\ alt.val.err.expected = <<Labelled("digit")>>

\* C10: the exit of go adds, drops and moves nothing: the secondary list has
\* the same length, order and positions as the inner parser left it, the
\* re-inserted failure keeps its position, and no failure appears from none.
Core(e) == <<e.span, e.expected, e.found>>

NoNewFailures ==
    last.valid =>
        /\ Len(secondary) = Len(last.sec1)
        /\ \A i \in 1..Len(secondary) :
             /\ secondary[i].pos = last.sec1[i].pos
             /\ Core(secondary[i].err) = Core(last.sec1[i].err)
             /\ (i <= last.err_count) => secondary[i] = last.sec1[i]
        /\ last.new_alt.some => (last.reinserted.some /\ Put.pos = Left.pos)
        /\ (~last.old_alt.some /\ ~last.new_alt.some) => ~alt.some

NoNewFailuresWitness ==
    /\ last.valid
    /\ last.is_context
    /\ last.err_count = 0
    /\ last.before = 0
    /\ Len(secondary) = 2
    /\ secondary[1].pos = 2
    /\ secondary[2].pos = 1
    /\ Len(secondary[1].err.context) = 1
    /\ ~last.old_alt.some
    /\ ~alt.some

---------------------------------------------------------------------------
(* Properties of Simple *)

\* C6: merge(A, B) expects A's patterns then B's, in order and with
\* duplicates, and keeps A's span and found; the spans need not be equal.
MergeConcat ==
    (op.fn = "merge") =>
        /\ Len(lhs.expected) = Len(op.self.expected) + Len(op.other.expected)
        /\ \A i \in 1..Len(op.self.expected) : lhs.expected[i] = op.self.expected[i]
        /\ \A j \in 1..Len(op.other.expected) :
             lhs.expected[Len(op.self.expected) + j] = op.other.expected[j]
        /\ lhs.span = op.self.span
        /\ lhs.found = op.self.found

MergeConcatWitness ==
    /\ op.fn = "merge"
    /\ op.self.span # op.other.span
    /\ op.self.found # op.other.found
    /\ op.self.expected = <<Token("x")>>
    /\ op.other.expected = <<Token("y"), Token("x")>>
    /\ lhs.expected = <<Token("x"), Token("y"), Token("x")>>

\* C7: the text of a Simple is "found '<found>' at <span> " or "the input
\* ended ", then "but end of input was expected", "but <p> was expected" or
\* "but one of <p1>, <p2>, ... was expected"; a label is shown verbatim and a
\* token in single quotes.
ShownPattern(p) ==
    CASE p.tag = "Labelled" -> p.val
      [] p.tag = "Token" -> "'" \o p.val \o "'"

RECURSIVE ShownList(_, _)
ShownList(ps, n) ==
    IF n = 1 THEN ShownPattern(ps[1])
    ELSE ShownList(ps, n - 1) \o ", " \o ShownPattern(ps[n])

ShownText(e) ==
    (IF e.found.some
     THEN "found '" \o e.found.val \o "' at "
          \o ToString(e.span.start) \o ".." \o ToString(e.span.end) \o " "
     ELSE "the input ended ")
    \o (CASE Len(e.expected) = 0 -> "but end of input was expected"
          [] Len(e.expected) = 1 -> "but " \o ShownPattern(e.expected[1]) \o " was expected"
          [] Len(e.expected) >= 2 ->
                "but one of " \o ShownList(e.expected, Len(e.expected)) \o " was expected")

DisplayText ==
    (op.fn = "fmt") => (text = Some(ShownText(op.self)) /\ lhs = op.self)

DisplayTextWitness ==
    /\ op.fn = "fmt"
    /\ text = Some("found 'x' at 0..1 but one of digit, 'y', 'x' was expected")

====
